---- MODULE Spec2Model ----
(***************************************************************************)
(* Shape-from-Shading pipeline of SelenoVision: one background job that    *)
(* loads an image, runs optimize_surface_sfs, scales the relative field    *)
(* with scale_dem_to_physical and publishes its results                    *)
(* (backend/services/luna_processor.py, backend/processor.py), together    *)
(* with the cancel request of backend/controllers/status_controller.py.    *)
(*                                                                         *)
(* Arithmetic.  Heights are integers.  A field is a record                 *)
(*   [finite |-> BOOLEAN, z |-> <<cell, ...>>]                             *)
(* finite = FALSE stands for an array holding NaN/Inf (z is then all 0).   *)
(* Normalised values (the code's surface_norm, a float in [0,1]) are kept  *)
(* in fixed point on the grid 0..NormGrid (k stands for k/NormGrid).  The   *)
(* linear map into the elevation range rounds each operation to a binary   *)
(* floating-point format of SignificandBits bits; a calibrated DEM cell is *)
(* in the unit of dem_min_height and dem_max_height.                       *)
(***************************************************************************)
EXTENDS Integers, Sequences, FiniteSets, TLC

VARIABLES
    config,           \* the configuration dictionary handed to the core
    image,            \* the decoded image file: [dtype, content]
    pc,               \* position of the worker in _process_image
    job,              \* the ProcessingJob record of job_storage
    iteration,        \* optimize_surface_sfs: loop variable, -1 before the loop
    surface,          \* optimize_surface_sfs / scale_dem_to_physical: the field
    history,          \* optimize_surface_sfs: the trace dictionary
    dem,              \* _process_image: dem_scaled
    processing_info,  \* _process_image: the reported iterations / converged
    raised,           \* the exception a pipeline step raised into the except branch
    future,           \* the worker's Future: pending, running, result or its exception
    scaleCalls,       \* the calls of scale_dem_to_physical made on the field
    meterCalls,       \* the calls of scale_dem_to_meters made on the field
    smoothedAt,       \* optimize_surface_sfs: the passes that ran bilateral_filter
    finalSmoothings,  \* optimize_surface_sfs: final gaussian_filter calls so far
    grid,             \* compute_gradients: the H x W surface it is given
    light,            \* compute_reflectance_map: light_vector
    gradients,        \* what compute_gradients returned or raised
    reflectance,      \* what compute_reflectance_map returned
    coreInput,        \* run_sfs_optimization: image shape and config entries
    corePc,           \* run_sfs_optimization: position in the function
    coreOutcome,      \* run_sfs_optimization: how scipy's minimize ended
    coreField,        \* run_sfs_optimization: the array it returns
    CONFIG,           \* processor.CONFIG: the module-level dictionary object
    runs,             \* the _process_image calls of the executor's workers
    processing_results, \* the processing_results collection: _id -> user_id
    response,         \* the last request served and its HTTP response
    solveInput,       \* a solver call: image, light_vector, config entries
    loopState,        \* optimize_surface_sfs: surface, prev_momentum, history, grad_objective
    coreState,        \* run_sfs_optimization: Z_initial, Z, total_gradient
    jobObj,           \* the ProcessingJob of an upload, as stored in job_storage
    worker,           \* the pool thread running _process_image on that job
    store,            \* the processing_results records written for that job
    cancelReq,        \* the request thread inside StatusController.cancel_job
    lastResponse,     \* the response of the last status, summary or cancel request
    job_storage,      \* models.job.job_storage: job id -> ProcessingJob
    uploads,          \* the files of UPLOAD_FOLDER, named by their job id
    server_results,   \* the paths of RESULTS_FOLDER: <<job id, entry>>
    threads,          \* the pool threads: position of each job's _process_image
    downloaded        \* the last download_results request and its response

\* what the loop of optimize_surface_sfs did besides its trace
solverAux == <<smoothedAt, finalSmoothings>>

pipelineVars == <<config, image, pc, job, iteration, surface, history, dem,
                  processing_info, raised, future, scaleCalls, meterCalls,
                  solverAux>>

\* the surface operators called on their own
fieldVars == <<grid, light, gradients, reflectance>>

\* sfs_photoclinometry.core.run_sfs_optimization
coreVars == <<coreInput, corePc, coreOutcome, coreField>>

\* the variables of the other entry points
\* the worker threads of processing_executor and the dictionary they share
runVars == <<CONFIG, runs>>

\* the stored results and the endpoints that serve them
authVars == <<processing_results, response>>

\* the seeding and the objective gradient of the two solvers
solveVars == <<solveInput, loopState, coreState>>

\* one upload followed statement by statement, with its request threads
lifeVars == <<jobObj, worker, store, cancelReq, lastResponse>>

\* several uploads, the two folders they share and the downloads
fileVars == <<job_storage, uploads, server_results, threads, downloaded>>

otherVars == <<fieldVars, coreVars, runVars, authVars, solveVars, lifeVars,
               fileVars>>

outsideField == <<pipelineVars, coreVars, runVars, authVars, solveVars, lifeVars,
                 fileVars>>

outsideCore == <<pipelineVars, fieldVars, runVars, authVars, solveVars, lifeVars,
                 fileVars>>

outsideRuns == <<pipelineVars, fieldVars, coreVars, authVars, solveVars, lifeVars,
                 fileVars>>

outsideAuth == <<pipelineVars, fieldVars, coreVars, runVars, solveVars, lifeVars,
                 fileVars>>

outsideSolve == <<pipelineVars, fieldVars, coreVars, runVars, authVars, lifeVars,
                 fileVars>>

outsideLife == <<pipelineVars, fieldVars, coreVars, runVars, authVars, solveVars,
                fileVars>>

outsideFiles == <<pipelineVars, fieldVars, coreVars, runVars, authVars, solveVars,
                 lifeVars>>

vars == <<pipelineVars, otherVars>>

-----------------------------------------------------------------------------
(* Bounds of the model *)

\* largest max_iterations a configuration is given
MaxIter == 3
\* number of cells (H*W) of the image the pipeline processes
NCells == 2
\* number of cells of the fields the scaler is applied to on its own
ScaleCells == 4
\* largest height of a cell of those fields
MaxHeight == 3
\* significant bits of the floating-point format of the scaler's linear map
\* (float64 has 53)
SignificandBits == 2

\* cell values a solver step may leave in a cell
SolverHeights == {0, 1}
\* largest number of rows and of columns of a surface given to the operators
GridSide == 3
\* largest max_iterations of a run on the flat image
FlatPasses == 21
\* number of jobs submitted to processing_executor
MaxJobs == 2
\* number of _id values of the processing_results collection
MaxResults == 2
\* an image value k of a solver call stands for the intensity k / ImageUnit
ImageUnit == 2
\* uploads followed together
MaxUploads == 2

\* the loop applies bilateral_filter in the passes whose index is a multiple
SmoothingPeriod == 10

-----------------------------------------------------------------------------
(* Sequences and sums *)

RECURSIVE SumSeq(_)
SumSeq(s) == IF s = <<>> THEN 0 ELSE Head(s) + SumSeq(Tail(s))

Abs(x) == IF x < 0 THEN -x ELSE x

MinSeq(s) == CHOOSE x \in {s[i] : i \in DOMAIN s} : \A j \in DOMAIN s : x <= s[j]

MaxSeq(s) == CHOOSE x \in {s[i] : i \in DOMAIN s} : \A j \in DOMAIN s : x >= s[j]

RECURSIVE InsertSorted(_, _)
InsertSorted(x, s) ==
    IF s = <<>> THEN <<x>>
    ELSE IF x <= Head(s) THEN <<x>> \o s
    ELSE <<Head(s)>> \o InsertSorted(x, Tail(s))

RECURSIVE SortAscending(_)
SortAscending(s) == IF s = <<>> THEN <<>> ELSE InsertSorted(Head(s), SortAscending(Tail(s)))

\* a/b > c/d for a, c >= 0 and b, d > 0, by continued fractions (no products)
RECURSIVE FracGreater(_, _, _, _)
FracGreater(a, b, c, d) ==
    LET qa == a \div b
        qc == c \div d
        ra == a % b
        rc == c % d
    IN  IF qa # qc THEN qa > qc
        ELSE IF ra = 0 THEN FALSE
        ELSE IF rc = 0 THEN TRUE
        ELSE FracGreater(d, rc, b, ra)

Zeros(n) == [i \in 1..n |-> 0]

FiniteField(z) == [finite |-> TRUE, z |-> z]

\* an array holding NaN or Inf; every reduction and comparison on it is NaN
NonFiniteField(n) == [finite |-> FALSE, z |-> Zeros(n)]

-----------------------------------------------------------------------------
(* scale_dem_to_physical (backend/processor.py) *)

\* np.power(surface_norm, gamma) on the grid: round(NormGrid * (k/NormGrid)^gamma)
PowTable07 == <<0, 2, 4, 5, 6, 8, 9, 10, 11, 11, 12, 13, 14, 15, 16, 16, 17, 18, 19, 19, 20>>
PowTable13 == <<0, 0, 1, 2, 2, 3, 4, 5, 6, 7, 8, 9, 10, 11, 13, 14, 15, 16, 17, 19, 20>>
PowTable085 == <<0, 2, 3, 4, 5, 6, 7, 8, 9, 10, 11, 12, 13, 14, 15, 16, 17, 17, 18, 19, 20>>

NormGrid == Len(PowTable085) - 1

\* num/den >= 0 rounded to the nearest grid value
ToGrid(num, den) == (2 * num * NormGrid + den) \div (2 * den)

\* 100 * np.percentile(z, q), linear interpolation between order statistics
Percentile100(z, q) ==
    LET s == SortAscending(z)
        pos == q * (Len(s) - 1)
        lo == pos \div 100
        fr == pos % 100
    IN  IF fr = 0 THEN 100 * s[lo + 1]
        ELSE 100 * s[lo + 1] + fr * (s[lo + 2] - s[lo + 1])

\* 2 * np.median(z)
Median2(z) ==
    LET s == SortAscending(z)
        n == Len(s)
    IN  IF n % 2 = 1 THEN 2 * s[(n + 1) \div 2]
        ELSE s[n \div 2] + s[n \div 2 + 1]

\* np.clip(x, 0, 1) of the fraction num/den, den > 0: the clipped numerator
Clip01(num, den) == IF num < 0 THEN 0 ELSE IF num > den THEN den ELSE num

\* (surface - surface.min()) / max(surface.max() - surface.min(), 1e-8)
MinMaxNorm(z) ==
    LET lo == MinSeq(z)
        range == MaxSeq(z) - lo
    IN  [i \in DOMAIN z |->
            IF range > 0 THEN ToGrid(z[i] - lo, range) ELSE 0]

\* ((surface - median) / (p99 - p1)) * 0.4 + 0.5, clipped to [0, 1]
RobustNorm(z) ==
    LET p1 == Percentile100(z, 1)
        p99 == Percentile100(z, 99)
        d == p99 - p1
        m2 == Median2(z)
    IN  IF p99 > p1
        THEN [i \in DOMAIN z |->
                 ToGrid(Clip01(40 * (2 * z[i] - m2) + d, 2 * d), 2 * d)]
        ELSE MinMaxNorm(z)

Normalize(z, cfg) ==
    IF cfg.adaptive_normalization THEN RobustNorm(z) ELSE MinMaxNorm(z)

\* mean((x - mean)^3) / (std^3 + 1e-8) compared with +0.1 and -0.1:
\* with d[i] = n*x[i] - sum(x), M2 = sum d^2, M3 = sum d^3 the skewness is
\* M3*sqrt(n)/M2^1.5, so |skew| > 0.1 iff 100*n*M3^2 > M2^3.
SkewClass(norm) ==
    LET n == Len(norm)
        total == SumSeq(norm)
        dev == [i \in DOMAIN norm |-> n * norm[i] - total]
        M2 == SumSeq([i \in DOMAIN norm |-> dev[i] * dev[i]])
        M3 == SumSeq([i \in DOMAIN norm |-> dev[i] * dev[i] * dev[i]])
    IN  IF M3 = 0 THEN "balanced"
        ELSE IF FracGreater(100 * n * Abs(M3), M2, M2 * M2, Abs(M3))
             THEN (IF M3 > 0 THEN "positive" ELSE "negative")
             ELSE "balanced"

\* the gamma chosen from the skewness: 0.7, 1.3 or 0.85, as its table
GammaTable(norm) ==
    LET c == SkewClass(norm)
    IN  IF c = "positive" THEN PowTable07
        ELSE IF c = "negative" THEN PowTable13
        ELSE PowTable085

Enhance(norm, cfg) ==
    IF cfg.feature_enhancement
    THEN LET t == GammaTable(norm) IN [i \in DOMAIN norm |-> t[norm[i] + 1]]
    ELSE norm

\* The unit in the last place of a value of magnitude a: the least power of
\* two u with a < u * 2^SignificandBits (a = num / den)
RECURSIVE UlpOf(_, _, _)
UlpOf(num, den, u) ==
    IF num < u * (2 ^ SignificandBits) * den THEN u ELSE UlpOf(num, den, 2 * u)

\* The floating-point result of an operation whose exact value is num / den:
\* the nearest value with SignificandBits significant bits, ties to the even
\* significand
FloatRound(num, den) ==
    LET a == Abs(num)
        u == UlpOf(a, den, 1)
        q == a \div (u * den)
        r == a % (u * den)
        m == IF 2 * r > u * den \/ (2 * r = u * den /\ q % 2 = 1)
             THEN q + 1 ELSE q
    IN  IF num < 0 THEN -(m * u) ELSE m * u

\* height_range = dem_max_height - dem_min_height;
\* dem_scaled = dem_min_height + surface_norm * height_range, each operation
\* rounded to the float format
LinearMap(norm, cfg) ==
    LET height_range == FloatRound(cfg.dem_max_height - cfg.dem_min_height, 1)
    IN  [i \in DOMAIN norm |->
            FloatRound(cfg.dem_min_height
                           + FloatRound(norm[i] * height_range, NormGrid), 1)]

\* the returned dem_scaled; every statistic of a non-finite field is NaN
scale_dem_to_physical(field, cfg) ==
    IF field.finite
    THEN FiniteField(LinearMap(Enhance(Normalize(field.z, cfg), cfg), cfg))
    ELSE NonFiniteField(Len(field.z))

-----------------------------------------------------------------------------
(* scale_dem_to_meters (sfs_photoclinometry/core.py) *)

\* dem * pixel_size_m - mean(dem * pixel_size_m), with the pixel size of
\* run_photoclinometry.py: 7.0e-6 * 95850 / 0.140 = 1917/400 m.  A cell c of
\* the result stands for c / (400 * n) metres, n the number of cells.
scale_dem_to_meters(field) ==
    IF field.finite
    THEN LET n == Len(field.z)
             total == SumSeq(field.z)
         IN  FiniteField([i \in 1..n |-> 1917 * (n * field.z[i] - total)])
    ELSE NonFiniteField(Len(field.z))

-----------------------------------------------------------------------------
(* Configurations and inputs *)

\* convergence_threshold, in height units (0 can be met by no iteration)
Thresholds == {0, 1}

\* <<dem_min_height, dem_max_height>>: two valid ranges (a symmetric one as
\* in CONFIG and an asymmetric one), an empty one, an inverted one
DemBounds == {<<-2, 2>>, <<-1, 6>>, <<1, 1>>, <<2, -2>>}

ConfigsWith(iters, thresholds, flags, bilateral) ==
    [max_iterations : iters,
     convergence_threshold : thresholds,
     use_bilateral_filter : bilateral,
     dem_min_height : {b[1] : b \in DemBounds},
     dem_max_height : {b[2] : b \in DemBounds},
     adaptive_normalization : flags,
     feature_enhancement : flags]

BoundsListed(cfg) == <<cfg.dem_min_height, cfg.dem_max_height>> \in DemBounds

\* the pipeline passes the module's CONFIG, whose two scaler flags are True
PipelineConfigs ==
    {cfg \in ConfigsWith(1..MaxIter, Thresholds, {TRUE}, {TRUE}) : BoundsListed(cfg)}

\* imageio's array before normalisation: dtype and what it holds.  "flat" is
\* the uniform image whose every pixel equals the reflectance of the flat
\* surface (light_vector[2]), "valid" any other finite image.
Images ==
    {img \in [dtype : {"uint8", "float"},
              content : {"valid", "flat", "empty", "nonfinite"}] :
        img.content \in {"nonfinite", "flat"} => img.dtype = "float"}

NoField == [finite |-> TRUE, z |-> <<>>]

EmptyHistory == [residuals |-> <<>>, gradients |-> <<>>, convergence |-> <<>>,
                 iterations |-> 0]

NoInfo == [set |-> FALSE, iterations |-> 0, converged |-> FALSE]

\* ProcessingJob.create_new
NewJob == [status |-> "queued", progress |-> 0, error_message |-> "none",
           results |-> FALSE]

TerminalStatuses == {"completed", "failed", "cancelled"}

\* the result slot of an operator that has not been called
NotCalled == [called |-> FALSE]

\* the surface operators have not been called
FieldIdle ==
    /\ grid = [finite |-> TRUE, h |-> 0, w |-> 0, z |-> <<>>]
    /\ light = <<0, 0, 1>>
    /\ gradients = NotCalled
    /\ reflectance = NotCalled

\* run_sfs_optimization has not been called
CoreIdle ==
    /\ coreInput = [h |-> 0, w |-> 0, max_iterations |-> 0,
                    initial_surface |-> "flat"]
    /\ corePc = "idle"
    /\ coreOutcome = NotCalled
    /\ coreField = [array |-> "none", final_smoothings |-> 0]

Jobs == 1..MaxJobs

\* a job whose _process_image call has not started
NotStarted ==
    [state |-> "pending", config |-> "none", iteration |-> 0,
     converged |-> FALSE,
     entered |-> [manual_image_path |-> "None", max_iterations |-> 0]]

\* no worker has started; CONFIG as the module defines it
RunsIdle ==
    /\ CONFIG = [manual_image_path |-> "None", max_iterations |-> 1]
    /\ runs = [j \in Jobs |-> NotStarted]

ResultIds == 1..MaxResults

NoResponse ==
    [endpoint |-> "none", credential |-> "missing", result_id |-> 0,
     status |-> 0, results |-> {}]

\* an empty collection and no request served
AuthIdle ==
    /\ processing_results = [id \in ResultIds |-> "unused"]
    /\ response = NoResponse

\* no solver call is being followed
SolveIdle ==
    /\ solveInput = [solver |-> "none"]
    /\ loopState = [pc |-> "idle"]
    /\ coreState = [pc |-> "idle"]

\* no entry of job_storage
NoJob == [status |-> "absent", progress |-> 0, error_message |-> "none",
          results |-> FALSE]

NoWorker == [pc |-> "none"]

NoRequest == [endpoint |-> "none", code |-> 0]

\* nothing has been uploaded
LifeIdle ==
    /\ jobObj = NoJob
    /\ worker = NoWorker
    /\ store = <<>>
    /\ cancelReq = [pc |-> "idle", accepted |-> FALSE]
    /\ lastResponse = NoRequest

\* an upload's job id (a uuid4 in the code): the ids handed out in order
UploadIds == 1 .. MaxUploads

NoDownload == [job |-> 0, code |-> 0, status |-> "none"]

\* the server has just started: no job, both folders empty
FilesIdle ==
    /\ job_storage = [j \in UploadIds |-> [status |-> "absent", user_id |-> "none"]]
    /\ uploads = {}
    /\ server_results = {}
    /\ threads = [j \in UploadIds |-> "none"]
    /\ downloaded = NoDownload

OthersIdle ==
    /\ FieldIdle /\ CoreIdle /\ RunsIdle /\ AuthIdle /\ SolveIdle /\ LifeIdle
    /\ FilesIdle

-----------------------------------------------------------------------------
(* models/job.py *)

update_status(j, status, progress) ==
    [j EXCEPT !.status = status, !.progress = progress]

set_error(j, message) ==
    [j EXCEPT !.status = "failed", !.error_message = message]

-----------------------------------------------------------------------------
(* load_and_validate_image (backend/processor.py) *)

\* mutant: the np.isfinite check is left out
load_and_validate_image_NoFiniteCheck(img) ==
    IF img.content = "empty"
    THEN [ok |-> FALSE, error |-> "ValueError",
          message |-> "zero-size array to reduction operation"]
    ELSE [ok |-> TRUE, error |-> "none", message |-> "none"]

\* The reductions image.max() / image.min() raise ValueError on an empty array
\* before the size check is reached; a NaN or Inf pixel fails np.isfinite.
load_and_validate_image(img) ==
    IF img.content = "empty"
    THEN [ok |-> FALSE, error |-> "ValueError",
          message |-> "zero-size array to reduction operation"]
    ELSE IF img.content = "nonfinite"
    THEN [ok |-> FALSE, error |-> "ValueError",
          message |-> "Image contains non-finite values"]
    ELSE [ok |-> TRUE, error |-> "none", message |-> "none"]

-----------------------------------------------------------------------------
(* optimize_surface_sfs (backend/processor.py) *)

\* np.mean(np.abs(surface - prev_surface)): the sum of the cell changes,
\* the mean being sum / n; NaN when either field is non-finite
SurfaceChange(next, prev) ==
    IF next.finite /\ prev.finite
    THEN [finite |-> TRUE,
          sum |-> SumSeq([i \in DOMAIN next.z |-> Abs(next.z[i] - prev.z[i])])]
    ELSE [finite |-> FALSE, sum |-> 0]

\* mutant: the summed change, not its mean, is compared with the threshold
ConvergenceReached_SumNotMean(change, cfg, n) ==
    change.finite /\ change.sum < cfg.convergence_threshold

\* surface_change < conv_threshold; a comparison with NaN is False
ConvergenceReached(change, cfg, n) ==
    change.finite /\ change.sum < cfg.convergence_threshold * n

\* mutant: the loop runs one pass past the budget
LoopContinues_OnePassMore(it, cfg) == it + 1 <= cfg.max_iterations

\* for iteration in range(max_iter): whether another pass follows pass number it
LoopContinues(it, cfg) == it + 1 < cfg.max_iterations

\* total_residual and mean |grad_objective| of a pass that starts from field f
Evaluated(f) == IF f.finite THEN "finite" ELSE "nonfinite"

\* The field a pass leaves (gradient step, momentum, bilateral filter): any
\* field over SolverHeights, or a non-finite one when the update overflows;
\* NaN/Inf never disappears from a field.
\* On the flat image the zero surface has residual 0, gradient 0 and
\* Laplacian 0 in every cell: momentum and update are 0 and bilateral_filter
\* returns the constant field, so the pass leaves the surface as it is.
StepOutcomes(prev, img) ==
    IF ~prev.finite THEN {NonFiniteField(Len(prev.z))}
    ELSE IF img.content = "flat" /\ prev.z = Zeros(Len(prev.z)) THEN {prev}
    ELSE {FiniteField(z) : z \in [1..Len(prev.z) -> SolverHeights]}
             \cup {NonFiniteField(Len(prev.z))}

\* mutant: the filter runs in every pass
BilateralDue_EveryPass(it, cfg) == cfg.use_bilateral_filter

\* config["use_bilateral_filter"] and iteration % 10 == 0
BilateralDue(it, cfg) == cfg.use_bilateral_filter /\ it % SmoothingPeriod = 0

\* gaussian_filter(surface, 0.2): kernel radius 1, weights 1 : exp(-12.5) in
\* millionths, reflected at the ends, along the row-major cell order
gaussian_filter(f) ==
    IF ~f.finite THEN f
    ELSE LET n == Len(f.z)
             at(i) == f.z[IF i < 1 THEN 1 ELSE IF i > n THEN n ELSE i]
         IN  FiniteField([i \in 1..n |->
                 (2 * (1000000 * at(i) + 4 * (at(i - 1) + at(i + 1))) + 1000008)
                     \div (2 * 1000008)])

\* mutant: the residual list keeps the newest record only
RecordPass_KeepsNewestResidual(h, residual, gradient, change) ==
    [h EXCEPT !.residuals = <<residual>>,
              !.gradients = Append(@, gradient),
              !.convergence = Append(@, change)]

\* history['residuals'].append(total_residual), history['gradients'].append(...),
\* history['convergence'].append(surface_change)
RecordPass(h, residual, gradient, change) ==
    [h EXCEPT !.residuals = Append(@, residual),
              !.gradients = Append(@, gradient),
              !.convergence = Append(@, change)]

\* 'converged': history['iterations'] < CONFIG["max_iterations"]
ReportedConverged(h, cfg) == h.iterations < cfg.max_iterations

-----------------------------------------------------------------------------
(* The job pipeline: LunaProcessor._process_image and the cancel request *)

Init ==
    /\ config \in PipelineConfigs
    /\ image \in Images
    /\ pc = "queued"
    /\ job = NewJob
    /\ iteration = -1
    /\ surface = NoField
    /\ history = EmptyHistory
    /\ dem = NoField
    /\ processing_info = NoInfo
    /\ raised = "none"
    /\ future = "pending"
    /\ scaleCalls = <<>>
    /\ meterCalls = <<>>
    /\ smoothedAt = <<>>
    /\ finalSmoothings = 0
    /\ OthersIdle

\* the pool runs _process_image(job): update_status(PROCESSING, 10)
StartJob ==
    /\ pc = "queued"
    /\ job' = update_status(job, "processing", 10)
    /\ future' = "running"
    /\ pc' = "load"
    /\ UNCHANGED <<config, image, iteration, surface, history, dem,
                   processing_info, raised, scaleCalls, meterCalls>>
    /\ UNCHANGED <<solverAux, otherVars>>

\* load_and_validate_image.  On ValueError the except branch runs
\* job.set_error and then reads the undefined name processing_result, so the
\* Future ends with NameError.
LoadImage ==
    /\ pc = "load"
    /\ LET r == load_and_validate_image(image)
       IN  IF r.ok
           THEN /\ job' = update_status(job, "processing", 20)
                /\ pc' = "illumination"
                /\ UNCHANGED <<raised, future>>
           ELSE /\ job' = set_error(job, r.message)
                /\ pc' = "failed"
                /\ raised' = r.error
                /\ future' = "NameError"
    /\ UNCHANGED <<config, image, iteration, surface, history, dem,
                   processing_info, scaleCalls, meterCalls>>
    /\ UNCHANGED <<solverAux, otherVars>>

\* compute_illumination_vector, then update_status(PROCESSING, 30)
ComputeIllumination ==
    /\ pc = "illumination"
    /\ job' = update_status(job, "processing", 30)
    /\ pc' = "sfs_init"
    /\ UNCHANGED <<config, image, iteration, surface, history, dem,
                   processing_info, raised, future, scaleCalls, meterCalls>>
    /\ UNCHANGED <<solverAux, otherVars>>

\* optimize_surface_sfs up to the loop: zero surface, empty history
SfsInit ==
    /\ pc = "sfs_init"
    /\ surface' = FiniteField(Zeros(NCells))
    /\ history' = EmptyHistory
    /\ iteration' = -1
    /\ smoothedAt' = <<>>
    /\ finalSmoothings' = 0
    /\ pc' = "iterating"
    /\ UNCHANGED <<config, image, job, dem, processing_info, raised, future,
                   scaleCalls, meterCalls>>
    /\ UNCHANGED otherVars

\* one pass of the loop body, up to the break or the next loop test
SfsIterate ==
    /\ pc = "iterating"
    /\ \E next \in StepOutcomes(surface, image) :
          LET it == iteration + 1
              change == SurfaceChange(next, surface)
          IN  /\ iteration' = it
              /\ surface' = next
              /\ history' = RecordPass(history, Evaluated(surface),
                                       Evaluated(surface), change)
              /\ smoothedAt' = IF BilateralDue(it, config)
                               THEN Append(smoothedAt, it) ELSE smoothedAt
              /\ pc' = IF ConvergenceReached(change, config, NCells) THEN "sfs_final"
                       ELSE IF LoopContinues(it, config) THEN "iterating"
                       ELSE "sfs_final"
    /\ finalSmoothings' = finalSmoothings
    /\ UNCHANGED <<config, image, job, dem, processing_info, raised, future,
                   scaleCalls, meterCalls>>
    /\ UNCHANGED otherVars

\* mutant: a run that used up its budget is started over
SfsFinish_StartsOver ==
    /\ pc = "sfs_final"
    /\ history' = [history EXCEPT !.iterations = iteration + 1]
    /\ surface' = gaussian_filter(surface)
    /\ finalSmoothings' = finalSmoothings + 1
    /\ smoothedAt' = smoothedAt
    /\ job' = update_status(job, "processing", 50)
    /\ pc' = IF ReportedConverged(history', config) THEN "scale" ELSE "sfs_init"
    /\ UNCHANGED <<config, image, iteration, dem, processing_info, raised, future,
                   scaleCalls, meterCalls>>
    /\ UNCHANGED otherVars

\* after the loop: history['iterations'], the final gaussian_filter, return;
\* then update_status(PROCESSING, 50)
SfsFinish ==
    /\ pc = "sfs_final"
    /\ history' = [history EXCEPT !.iterations = iteration + 1]
    /\ surface' = gaussian_filter(surface)
    /\ finalSmoothings' = finalSmoothings + 1
    /\ smoothedAt' = smoothedAt
    /\ job' = update_status(job, "processing", 50)
    /\ pc' = "scale"
    /\ UNCHANGED <<config, image, iteration, dem, processing_info, raised, future,
                   scaleCalls, meterCalls>>
    /\ UNCHANGED otherVars

\* scale_dem_to_physical(surface, CONFIG), then update_status(PROCESSING, 60)
ScaleDem ==
    /\ pc = "scale"
    /\ dem' = scale_dem_to_physical(surface, config)
    /\ job' = update_status(job, "processing", 60)
    /\ pc' = "outputs"
    /\ UNCHANGED <<config, image, iteration, surface, history, processing_info,
                   raised, future, scaleCalls, meterCalls>>
    /\ UNCHANGED <<solverAux, otherVars>>

\* create_geotiff, create_obj_file, then update_status(PROCESSING, 70)
CreateOutputs ==
    /\ pc = "outputs"
    /\ job' = update_status(job, "processing", 70)
    /\ pc' = "visualize"
    /\ UNCHANGED <<config, image, iteration, surface, history, dem,
                   processing_info, raised, future, scaleCalls, meterCalls>>
    /\ UNCHANGED <<solverAux, otherVars>>

\* create_visualizations, then update_status(PROCESSING, 80)
CreateVisualizations ==
    /\ pc = "visualize"
    /\ job' = update_status(job, "processing", 80)
    /\ pc' = "analyze"
    /\ UNCHANGED <<config, image, iteration, surface, history, dem,
                   processing_info, raised, future, scaleCalls, meterCalls>>
    /\ UNCHANGED <<solverAux, otherVars>>

\* analyze_dem_quality; processing_info is built; update_status(PROCESSING, 90)
AnalyzeDem ==
    /\ pc = "analyze"
    /\ processing_info' = [set |-> TRUE, iterations |-> history.iterations,
                           converged |-> ReportedConverged(history, config)]
    /\ job' = update_status(job, "processing", 90)
    /\ pc' = "save"
    /\ UNCHANGED <<config, image, iteration, surface, history, dem, raised,
                   future, scaleCalls, meterCalls>>
    /\ UNCHANGED <<solverAux, otherVars>>

\* save_analysis_results, create_analysis_visualization;
\* update_status(PROCESSING, 95)
SaveAnalysis ==
    /\ pc = "save"
    /\ job' = update_status(job, "processing", 95)
    /\ pc' = "publish"
    /\ UNCHANGED <<config, image, iteration, surface, history, dem,
                   processing_info, raised, future, scaleCalls, meterCalls>>
    /\ UNCHANGED <<solverAux, otherVars>>

\* create_results_zip; job.results = results; update_status(COMPLETED, 100)
CompleteJob ==
    /\ pc = "publish"
    /\ job' = update_status([job EXCEPT !.results = TRUE], "completed", 100)
    /\ future' = "result"
    /\ pc' = "done"
    /\ UNCHANGED <<config, image, iteration, surface, history, dem,
                   processing_info, raised, scaleCalls, meterCalls>>
    /\ UNCHANGED <<solverAux, otherVars>>

\* StatusController.cancel_job, on a request thread: the job has no 'future'
\* attribute (submit_processing_job stores none), so only the status changes
CancelJob ==
    /\ job.status \notin TerminalStatuses
    /\ job' = [job EXCEPT !.status = "cancelled"]
    /\ UNCHANGED <<config, image, pc, iteration, surface, history, dem,
                   processing_info, raised, future, scaleCalls, meterCalls>>
    /\ UNCHANGED <<solverAux, otherVars>>

Next ==
    \/ StartJob
    \/ LoadImage
    \/ ComputeIllumination
    \/ SfsInit
    \/ SfsIterate
    \/ SfsFinish
    \/ ScaleDem
    \/ CreateOutputs
    \/ CreateVisualizations
    \/ AnalyzeDem
    \/ SaveAnalysis
    \/ CompleteJob
    \/ CancelJob

Spec == Init /\ [][Next]_vars

-----------------------------------------------------------------------------
(* The job pipeline on the flat image, with budgets of several smoothing   *)
(* periods and the bilateral filter switched on or off                     *)

FlatConfigs ==
    {cfg \in ConfigsWith(1..FlatPasses, Thresholds, {TRUE}, BOOLEAN) :
        cfg.dem_min_height = -2 /\ cfg.dem_max_height = 2}

InitFlat ==
    /\ config \in FlatConfigs
    /\ image = [dtype |-> "float", content |-> "flat"]
    /\ pc = "queued"
    /\ job = NewJob
    /\ iteration = -1
    /\ surface = NoField
    /\ history = EmptyHistory
    /\ dem = NoField
    /\ processing_info = NoInfo
    /\ raised = "none"
    /\ future = "pending"
    /\ scaleCalls = <<>>
    /\ meterCalls = <<>>
    /\ smoothedAt = <<>>
    /\ finalSmoothings = 0
    /\ OthersIdle

SpecFlat == InitFlat /\ [][Next]_vars

-----------------------------------------------------------------------------
(* The scaler on its own: scale_dem_to_physical called on a caller's field *)

ScaleFields == {FiniteField(z) : z \in [1..ScaleCells -> 0..MaxHeight]}

ScaleConfigs ==
    {cfg \in ConfigsWith({1}, {0}, BOOLEAN, {TRUE}) : BoundsListed(cfg)}

InitScale ==
    /\ config \in ScaleConfigs
    /\ surface \in ScaleFields
    /\ image = [dtype |-> "float", content |-> "valid"]
    /\ pc = "scaler"
    /\ job = NewJob
    /\ iteration = -1
    /\ history = EmptyHistory
    /\ dem = NoField
    /\ processing_info = NoInfo
    /\ raised = "none"
    /\ future = "pending"
    /\ scaleCalls = <<>>
    /\ meterCalls = <<>>
    /\ smoothedAt = <<>>
    /\ finalSmoothings = 0
    /\ OthersIdle

\* mutant: the normalisation subtracts the minimum from the argument in place
CallScaler_InPlace ==
    /\ pc = "scaler"
    /\ Len(scaleCalls) < 2
    /\ dem' = scale_dem_to_physical(surface, config)
    /\ surface' = FiniteField([i \in DOMAIN surface.z |->
                                  surface.z[i] - MinSeq(surface.z)])
    /\ scaleCalls' = Append(scaleCalls,
                            [arg |-> surface, cfg |-> config, ret |-> dem'])
    /\ UNCHANGED <<config, image, pc, job, iteration, history,
                   processing_info, raised, future, meterCalls>>
    /\ UNCHANGED <<solverAux, otherVars>>

\* dem_scaled = scale_dem_to_physical(surface, config), called at most twice:
\* the call binds fresh arrays (surface_norm, dem_scaled) and assigns to
\* neither argument
CallScaler ==
    /\ pc = "scaler"
    /\ Len(scaleCalls) < 2
    /\ dem' = scale_dem_to_physical(surface, config)
    /\ scaleCalls' = Append(scaleCalls,
                            [arg |-> surface, cfg |-> config, ret |-> dem'])
    /\ UNCHANGED <<config, image, pc, job, iteration, surface, history,
                   processing_info, raised, future, meterCalls>>
    /\ UNCHANGED <<solverAux, otherVars>>

\* scaled_dem = scale_dem_to_meters(dem, shape, config), called at most twice:
\* the in-place subtraction acts on the fresh product array
CallScaleToMeters ==
    /\ pc = "scaler"
    /\ Len(meterCalls) < 2
    /\ meterCalls' = Append(meterCalls,
                            [arg |-> surface, ret |-> scale_dem_to_meters(surface)])
    /\ UNCHANGED <<config, image, pc, job, iteration, surface, history, dem,
                   processing_info, raised, future, scaleCalls>>
    /\ UNCHANGED <<solverAux, otherVars>>

NextScale == CallScaler \/ CallScaleToMeters

SpecScale == InitScale /\ [][NextScale]_vars

-----------------------------------------------------------------------------
(* compute_gradients and compute_reflectance_map (backend/processor.py),    *)
(* called on a surface of their own.  A surface is                         *)
(*   [finite |-> BOOLEAN, h |-> H, w |-> W, z |-> <<row_1, ..., row_H>>]   *)
(* Gradient cells hold twice the derivative (the central difference is     *)
(* halved in the source); a reflectance cell [num, den2] stands for        *)
(* num / (2 * sqrt(den2 / 4)) = num / sqrt(den2).                          *)

Grids ==
    UNION {{[finite |-> f, h |-> h, w |-> w, z |-> z] :
                f \in BOOLEAN, z \in [1..h -> [1..w -> {0, 1}]]} :
           h \in 1..GridSide, w \in 1..GridSide}

\* light_vector scaled to integers: overhead-east, west at low sun, and a sun
\* below the horizon
Lights == {<<1, -1, 2>>, <<-2, 0, 1>>, <<0, 1, -1>>}

\* The boundary assignments of compute_gradients, the same four for grad_x
\* and grad_y; the column assignments come last and overwrite the corners:
\*   g[0, :] = s[1, :] - s[0, :];    g[-1, :] = s[-1, :] - s[-2, :]
\*   g[:, 0] = s[:, 1] - s[:, 0];    g[:, -1] = s[:, -1] - s[:, -2]
BoundaryDifference(g, i, j) ==
    IF j = 1 THEN 2 * (g.z[i][2] - g.z[i][1])
    ELSE IF j = g.w THEN 2 * (g.z[i][g.w] - g.z[i][g.w - 1])
    ELSE IF i = 1 THEN 2 * (g.z[2][j] - g.z[1][j])
    ELSE 2 * (g.z[g.h][j] - g.z[g.h - 1][j])

Interior(g, i, j) == 1 < i /\ i < g.h /\ 1 < j /\ j < g.w

\* grad_x[1:-1, 1:-1] = (surface[1:-1, 2:] - surface[1:-1, :-2]) / 2.0
grad_x(g, i, j) ==
    IF Interior(g, i, j) THEN g.z[i][j + 1] - g.z[i][j - 1]
    ELSE BoundaryDifference(g, i, j)

\* grad_y[1:-1, 1:-1] = (surface[2:, 1:-1] - surface[:-2, 1:-1]) / 2.0
grad_y(g, i, j) ==
    IF Interior(g, i, j) THEN g.z[i + 1][j] - g.z[i - 1][j]
    ELSE BoundaryDifference(g, i, j)

\* surface[1, :] does not exist for H = 1, surface[:, 1] not for W = 1: the
\* boundary assignments raise IndexError.  NaN/Inf cells give NaN differences.
compute_gradients(g) ==
    IF g.h < 2 \/ g.w < 2
    THEN [called |-> TRUE, error |-> "IndexError"]
    ELSE [called |-> TRUE, error |-> "none", finite |-> g.finite,
          h |-> g.h, w |-> g.w,
          grad_x |-> [i \in 1..g.h |-> [j \in 1..g.w |->
                         IF g.finite THEN grad_x(g, i, j) ELSE 0]],
          grad_y |-> [i \in 1..g.h |-> [j \in 1..g.w |->
                         IF g.finite THEN grad_y(g, i, j) ELSE 0]]]

\* np.maximum(0, nx*l[0] + ny*l[1] + nz*l[2]) with
\* (nx, ny, nz) = (-grad_x, -grad_y, 1) / sqrt(grad_x^2 + grad_y^2 + 1);
\* np.maximum returns NaN where its argument is NaN
compute_reflectance_map(gr, l) ==
    [called |-> TRUE, finite |-> gr.finite, h |-> gr.h, w |-> gr.w,
     R |-> [i \in 1..gr.h |-> [j \in 1..gr.w |->
              LET gx == gr.grad_x[i][j]
                  gy == gr.grad_y[i][j]
                  dot == 2 * l[3] - gx * l[1] - gy * l[2]
              IN  [num |-> IF dot > 0 THEN dot ELSE 0,
                   den2 |-> gx * gx + gy * gy + 4]]]]

\* no job is running: the pipeline's variables rest at their initial values
PipelineIdle ==
    /\ config = CHOOSE cfg \in PipelineConfigs :
                    /\ cfg.max_iterations = 1
                    /\ cfg.convergence_threshold = 0
                    /\ cfg.dem_min_height = -2
    /\ image = [dtype |-> "float", content |-> "valid"]
    /\ pc = "idle"
    /\ job = NewJob
    /\ iteration = -1
    /\ surface = NoField
    /\ history = EmptyHistory
    /\ dem = NoField
    /\ processing_info = NoInfo
    /\ raised = "none"
    /\ future = "pending"
    /\ scaleCalls = <<>>
    /\ meterCalls = <<>>
    /\ smoothedAt = <<>>
    /\ finalSmoothings = 0

InitField ==
    /\ PipelineIdle
    /\ CoreIdle
    /\ RunsIdle
    /\ AuthIdle
    /\ SolveIdle
    /\ LifeIdle
    /\ FilesIdle
    /\ grid \in Grids
    /\ light \in Lights
    /\ gradients = NotCalled
    /\ reflectance = NotCalled

\* grad_x, grad_y = compute_gradients(surface)
CallComputeGradients ==
    /\ ~gradients.called
    /\ gradients' = compute_gradients(grid)
    /\ UNCHANGED <<outsideField, grid, light, reflectance>>

\* R_computed = compute_reflectance_map(grad_x, grad_y, light_vector)
CallComputeReflectance ==
    /\ gradients.called
    /\ gradients.error = "none"
    /\ ~reflectance.called
    /\ reflectance' = compute_reflectance_map(gradients, light)
    /\ UNCHANGED <<outsideField, grid, light, gradients>>

NextField == CallComputeGradients \/ CallComputeReflectance

SpecField == InitField /\ [][NextField]_vars

-----------------------------------------------------------------------------
(* run_sfs_optimization (sfs_photoclinometry/core.py).  Its arrays are      *)
(* followed by name: coreField tells which array is returned (Z_initial or *)
(* the optimizer's result.x) and how many final gaussian_filter passes it  *)
(* went through.                                                           *)

CoreInputs ==
    [h : 1..GridSide, w : 1..GridSide, max_iterations : 1..MaxIter,
     initial_surface : {"flat", "dem"}]

\* How minimize(fun=sfs_cost_and_gradient, ..., maxiter=max_iterations) ends:
\* np.gradient(Z) in sfs_cost_and_gradient raises ValueError when an axis of
\* the image has fewer than 2 cells; otherwise L-BFGS-B returns after at most
\* maxiter iterations, with or without success.
MinimizeOutcomes(inp) ==
    IF inp.h < 2 \/ inp.w < 2
    THEN {[called |-> TRUE, raised |-> "ValueError", nit |-> 0, success |-> FALSE]}
    ELSE [called : {TRUE}, raised : {"none"}, nit : 0..inp.max_iterations,
          success : BOOLEAN]

InitCore ==
    /\ PipelineIdle
    /\ FieldIdle
    /\ RunsIdle
    /\ AuthIdle
    /\ SolveIdle
    /\ LifeIdle
    /\ FilesIdle
    /\ coreInput \in CoreInputs
    /\ corePc = "called"
    /\ coreOutcome = NotCalled
    /\ coreField = [array |-> "none", final_smoothings |-> 0]

\* smoothed_image, light_vec, Z_initial; any initial_surface but "flat"
\* raises NotImplementedError out of the function
CorePrepare ==
    /\ corePc = "called"
    /\ corePc' = IF coreInput.initial_surface = "flat" THEN "minimize"
                 ELSE "raised"
    /\ UNCHANGED <<outsideCore, coreInput, coreOutcome, coreField>>

\* the try block: minimize returns, or raises and the except branch returns
\* Z_initial
CoreMinimize ==
    /\ corePc = "minimize"
    /\ \E out \in MinimizeOutcomes(coreInput) :
          /\ coreOutcome' = out
          /\ IF out.raised = "none"
             THEN /\ corePc' = "post_process"
                  /\ coreField' = coreField
             ELSE /\ corePc' = "returned"
                  /\ coreField' = [array |-> "Z_initial", final_smoothings |-> 0]
    /\ UNCHANGED <<outsideCore, coreInput>>

\* final_dem = gaussian_filter(result.x.reshape(image.shape), sigma=0.3);
\* return final_dem
CorePostProcess ==
    /\ corePc = "post_process"
    /\ coreField' = [array |-> "result.x", final_smoothings |-> 1]
    /\ corePc' = "returned"
    /\ UNCHANGED <<outsideCore, coreInput, coreOutcome>>

NextCore == CorePrepare \/ CoreMinimize \/ CorePostProcess

SpecCore == InitCore /\ [][NextCore]_vars

-----------------------------------------------------------------------------
(* The workers of processing_executor (services/luna_processor.py).  Every *)
(* _process_image call passes the module-level dictionary CONFIG of        *)
(* processor.py to the solver; a dictionary is passed by reference, so a   *)
(* run's config field holds the name of the object it was given, and what  *)
(* it reads is the current content of that object.  The field "entered"    *)
(* records the content the object had when the run received it.            *)

ImagePaths == {"data/a.png", "data/b.png"}

\* the dictionary a reference names
Deref(ref) == CONFIG

InitRuns ==
    /\ PipelineIdle
    /\ FieldIdle
    /\ CoreIdle
    /\ AuthIdle
    /\ SolveIdle
    /\ LifeIdle
    /\ FilesIdle
    /\ CONFIG \in [manual_image_path : {"None"}, max_iterations : 1..MaxIter]
    /\ runs = [j \in Jobs |-> NotStarted]

\* a worker enters _process_image and calls
\* optimize_surface_sfs(image, light_vector, CONFIG)
StartRun(j) ==
    /\ runs[j].state = "pending"
    /\ runs' = [runs EXCEPT ![j] = [state |-> "running", config |-> "CONFIG",
                                    iteration |-> 0, converged |-> FALSE,
                                    entered |-> CONFIG]]
    /\ UNCHANGED <<outsideRuns, CONFIG>>

\* one pass of the run's loop, for iteration in range(config["max_iterations"])
RunIterate(j) ==
    /\ runs[j].state = "running"
    /\ runs[j].iteration < Deref(runs[j].config).max_iterations
    /\ runs' = [runs EXCEPT ![j].iteration = @ + 1]
    /\ UNCHANGED <<outsideRuns, CONFIG>>

\* the loop ends (break or range exhausted) and _process_image reports
\* 'converged': history['iterations'] < CONFIG["max_iterations"]
RunFinish(j) ==
    /\ runs[j].state = "running"
    /\ runs[j].iteration >= 1
    /\ runs' = [runs EXCEPT ![j].state = "done",
                            ![j].converged =
                                runs[j].iteration < CONFIG.max_iterations]
    /\ UNCHANGED <<outsideRuns, CONFIG>>

\* set_manual_image_path(image_path); exists is os.path.exists(image_path)
set_manual_image_path(image_path, exists) ==
    /\ CONFIG' = IF exists
                 THEN [CONFIG EXCEPT !.manual_image_path = image_path]
                 ELSE CONFIG
    /\ UNCHANGED <<outsideRuns, runs>>

NextRuns ==
    \/ \E j \in Jobs : StartRun(j)
    \/ \E j \in Jobs : RunIterate(j)
    \/ \E j \in Jobs : RunFinish(j)
    \/ \E image_path \in ImagePaths, exists \in BOOLEAN :
          set_manual_image_path(image_path, exists)

SpecRuns == InitRuns /\ [][NextRuns]_vars

-----------------------------------------------------------------------------
(* The stored results and the requests that read or delete them            *)
(* (controllers/results_controller.py, routes/results.py, routes/auth.py). *)
(* A request carries a credential: the token of a user, no token, or a     *)
(* token that does not verify.  processing_results maps an _id to the      *)
(* user_id of its record, to "unused" before the record is created and to  *)
(* "deleted" afterwards (an ObjectId is never issued twice).               *)

Users == {"alice", "bob"}

Credentials == Users \cup {"missing", "invalid"}

\* @jwt_required(): the identity of the token, or the response of the
\* unauthorized_loader / invalid_token_loader of the application
verify_jwt(credential) ==
    CASE credential = "missing" -> [ok |-> FALSE, status |-> 401, identity |-> "none"]
      [] credential = "invalid" -> [ok |-> FALSE, status |-> 422, identity |-> "none"]
      [] OTHER -> [ok |-> TRUE, status |-> 200, identity |-> credential]

\* ProcessingResult.find_by_user_id(user_id)
find_by_user_id(user_id) == {id \in ResultIds : processing_results[id] = user_id}

Respond(endpoint, credential, result_id, status, results) ==
    [endpoint |-> endpoint, credential |-> credential, result_id |-> result_id,
     status |-> status, results |-> results]

InitAuth ==
    /\ PipelineIdle
    /\ FieldIdle
    /\ CoreIdle
    /\ RunsIdle
    /\ SolveIdle
    /\ LifeIdle
    /\ FilesIdle
    /\ processing_results = [id \in ResultIds |-> "unused"]
    /\ response = NoResponse

\* ProcessingResult.create_result(user_id, job_id, filename), called for an
\* authenticated upload
create_result(user_id, id) ==
    /\ processing_results[id] = "unused"
    /\ processing_results' = [processing_results EXCEPT ![id] = user_id]
    /\ UNCHANGED <<outsideAuth, response>>

\* GET /api/results/ : ResultsController.get_user_results
get_user_results(credential) ==
    /\ LET jwt == verify_jwt(credential)
       IN  response' =
               IF ~jwt.ok
               THEN Respond("get_user_results", credential, 0, jwt.status, {})
               ELSE Respond("get_user_results", credential, 0, 200,
                            find_by_user_id(jwt.identity))
    /\ UNCHANGED <<outsideAuth, processing_results>>

\* GET /api/results/dashboard : the route calls
\* ResultsController.get_dashboard_data, which the class does not define;
\* the AttributeError becomes the server's 500 response
get_dashboard_data(credential) ==
    /\ response' = Respond("get_dashboard_data", credential, 0, 500, {})
    /\ UNCHANGED <<outsideAuth, processing_results>>

\* the handler without its ownership test
delete_user_result_AnyOwner(credential, result_id) ==
    /\ LET jwt == verify_jwt(credential)
           result == processing_results[result_id]
       IN  IF ~jwt.ok
           THEN /\ response' = Respond("delete_user_result", credential,
                                       result_id, jwt.status, {})
                /\ UNCHANGED processing_results
           ELSE IF result \notin Users
           THEN /\ response' = Respond("delete_user_result", credential,
                                       result_id, 404, {})
                /\ UNCHANGED processing_results
           ELSE /\ processing_results' =
                       [processing_results EXCEPT ![result_id] = "deleted"]
                /\ response' = Respond("delete_user_result", credential,
                                       result_id, 200, {})
    /\ UNCHANGED outsideAuth

\* DELETE /api/results/<result_id> : ResultsController.delete_user_result
delete_user_result(credential, result_id) ==
    /\ LET jwt == verify_jwt(credential)
           result == processing_results[result_id]
       IN  IF ~jwt.ok
           THEN /\ response' = Respond("delete_user_result", credential,
                                       result_id, jwt.status, {})
                /\ UNCHANGED processing_results
           ELSE IF result \notin Users \/ result # jwt.identity
           THEN /\ response' = Respond("delete_user_result", credential,
                                       result_id, 404, {})
                /\ UNCHANGED processing_results
           ELSE /\ processing_results' =
                       [processing_results EXCEPT ![result_id] = "deleted"]
                /\ response' = Respond("delete_user_result", credential,
                                       result_id, 200, {})
    /\ UNCHANGED outsideAuth

\* DELETE /api/results/<result_id> of routes/auth.py : delete_result, whose
\* find_one filters on _id and user_id together
delete_result(credential, result_id) ==
    /\ LET jwt == verify_jwt(credential)
       IN  IF ~jwt.ok
           THEN /\ response' = Respond("delete_result", credential,
                                       result_id, jwt.status, {})
                /\ UNCHANGED processing_results
           ELSE IF result_id \notin find_by_user_id(jwt.identity)
           THEN /\ response' = Respond("delete_result", credential,
                                       result_id, 404, {})
                /\ UNCHANGED processing_results
           ELSE /\ processing_results' =
                       [processing_results EXCEPT ![result_id] = "deleted"]
                /\ response' = Respond("delete_result", credential,
                                       result_id, 200, {})
    /\ UNCHANGED outsideAuth

NextAuth ==
    \/ \E user_id \in Users, id \in ResultIds : create_result(user_id, id)
    \/ \E credential \in Credentials : get_user_results(credential)
    \/ \E credential \in Credentials : get_dashboard_data(credential)
    \/ \E credential \in Credentials, result_id \in ResultIds :
          delete_user_result(credential, result_id)
    \/ \E credential \in Credentials, result_id \in ResultIds :
          delete_result(credential, result_id)

SpecAuth == InitAuth /\ [][NextAuth]_vars

-----------------------------------------------------------------------------
(* The seeding of the two solvers and one evaluation of the gradient of    *)
(* their objective: optimize_surface_sfs up to the assembly of             *)
(* grad_objective (backend/processor.py) and run_sfs_optimization with     *)
(* sfs_cost_and_gradient (sfs_photoclinometry/core.py).                    *)
(* An image cell k stands for the intensity k / ImageUnit; a surface is a  *)
(* matrix of integer heights; derivatives are kept doubled as above.  The  *)
(* photometric part of a gradient is followed per cell: whether the cell's *)
(* predicted reflectance sits at the clamp floor, whether the cell's       *)
(* residual enters the gradient, and whether that residual is exactly 0.   *)
(* The positive factors that multiply a residual (the edge weight          *)
(* 1 + 3 * |grad I| / max, the adaptive regularization weight in           *)
(* [lambda / 2, lambda], 1 + log(H * W) / 20 of adaptive_lambda) do not    *)
(* change which cells are zero and are left out.                           *)

SolveShapes == {<<1, 1>>, <<1, 2>>, <<2, 1>>, <<2, 2>>}

\* config["initial_surface"]: the two modes optimize_surface_sfs names, an
\* image-seeded mode and a coarse-DEM mode
SurfaceModes == {"flat", "random", "image", "dem"}

\* config["regularization_lambda"], in units of the step
Lambdas == {-1, 0, 1}

SolveInputs ==
    UNION {[solver : {"loop", "core"},
            h : {sh[1]}, w : {sh[2]},
            image : [1..sh[1] -> [1..sh[2] -> 0..ImageUnit]],
            light : Lights,
            initial_surface : SurfaceModes,
            regularization_lambda : Lambdas,
            adaptive_regularization : BOOLEAN] : sh \in SolveShapes}

\* the surfaces a random seed or the optimizer may present
SolveSurfaces(h, w) == [1..h -> [1..w -> {0, 1}]]

ZeroMatrix(h, w) == [i \in 1..h |-> [j \in 1..w |-> 0]]

\* index i of an axis of length n under scipy's mode 'reflect' (d c b a | a b c d)
ReflectIndex(i, n) ==
    LET m == (i - 1) % (2 * n) IN IF m < n THEN m + 1 ELSE 2 * n - m

\* scipy.ndimage.laplace(surface): second differences along both axes, the
\* array extended by reflection
laplace_reflect(z, h, w) ==
    [i \in 1..h |-> [j \in 1..w |->
        (z[ReflectIndex(i - 1, h)][j] + z[ReflectIndex(i + 1, h)][j]
         + z[i][ReflectIndex(j - 1, w)] + z[i][ReflectIndex(j + 1, w)])
        - 4 * z[i][j]]]

\* laplace(Z, mode='constant', cval=0.0): the array extended by zeros
laplace_constant(z, h, w) ==
    LET at(i, j) == IF i \in 1..h /\ j \in 1..w THEN z[i][j] ELSE 0
    IN  [i \in 1..h |-> [j \in 1..w |->
            (at(i - 1, j) + at(i + 1, j) + at(i, j - 1) + at(i, j + 1))
            - 4 * z[i][j]]]

\* the kernel of gaussian_filter(image, sigma=0.5), radius 2: the weights
\* exp(-2 k^2) for k = -2..2 in thousandths of the centre weight
GaussKernel == <<0, 135, 1000, 135, 0>>

GaussTotal == SumSeq(GaussKernel)

\* gaussian_filter(image, sigma=0.5) times GaussTotal^2: the kernel applied
\* along both axes with reflection
smoothed_image(inp) ==
    [i \in 1..inp.h |-> [j \in 1..inp.w |->
        SumSeq([a \in 1..Len(GaussKernel) |->
            SumSeq([b \in 1..Len(GaussKernel) |->
                GaussKernel[a] * GaussKernel[b]
                    * inp.image[ReflectIndex(i + a - 3, inp.h)]
                               [ReflectIndex(j + b - 3, inp.w)]])])]]

\* Z_initial = (smoothed_image - 0.5) * 10.0, times ImageUnit * GaussTotal^2
Z_initial(inp) ==
    LET sm == smoothed_image(inp)
    IN  [i \in 1..inp.h |-> [j \in 1..inp.w |->
            10 * sm[i][j] - 5 * ImageUnit * GaussTotal * GaussTotal]]

\* observed - predicted = 0 for the intensity k / ImageUnit and the
\* reflectance num / sqrt(den2), both non-negative
ResidualIsZero(k, num, den2) ==
    k * k * den2 = ImageUnit * ImageUnit * num * num

\* optimize_surface_sfs: surface by config["initial_surface"]; every mode
\* other than "flat" and "random" takes the else branch
LoopSeeds(inp) ==
    IF inp.initial_surface = "random" THEN SolveSurfaces(inp.h, inp.w)
    ELSE {ZeroMatrix(inp.h, inp.w)}

\* residual = R_computed - image; grad_objective = 2 * residual, of every cell
LoopPhotometric(inp, R) ==
    [i \in 1..inp.h |-> [j \in 1..inp.w |->
        [floor |-> R[i][j].num = 0,
         used |-> TRUE,
         residual_zero |-> ResidualIsZero(inp.image[i][j], R[i][j].num,
                                          R[i][j].den2)]]]

\* if lambda_reg > 0: grad_objective += (reg_weight or lambda_reg) * laplacian
LoopRegularization(inp, z) ==
    IF inp.regularization_lambda > 0
    THEN LET lap == laplace_reflect(z, inp.h, inp.w)
         IN  [i \in 1..inp.h |-> [j \in 1..inp.w |->
                 inp.regularization_lambda * lap[i][j]]]
    ELSE ZeroMatrix(inp.h, inp.w)

\* np.gradient(Z) along axis 0, doubled: central inside, one-sided at the ends
np_gradient_axis0(z, h, w, i, j) ==
    IF i = 1 THEN 2 * (z[2][j] - z[1][j])
    ELSE IF i = h THEN 2 * (z[h][j] - z[h - 1][j])
    ELSE z[i + 1][j] - z[i - 1][j]

\* np.gradient(Z) along axis 1, doubled
np_gradient_axis1(z, h, w, i, j) ==
    IF j = 1 THEN 2 * (z[i][2] - z[i][1])
    ELSE IF j = w THEN 2 * (z[i][w] - z[i][w - 1])
    ELSE z[i][j + 1] - z[i][j - 1]

\* sfs_cost_and_gradient: brightness_error = observed_image - predicted_image
\* with utils.calculate_predicted_image (q, p = np.gradient(Z), normal
\* (-p, -q, 1)); mask = predicted_reflectance > 1e-6 with the routine's own
\* p, q = np.gradient(Z) and (nx, ny, nz) = (-p, -q, 1) / denom; the residual
\* of a cell enters grad_p and grad_q where the mask holds
CorePhotometric(inp, z) ==
    [i \in 1..inp.h |-> [j \in 1..inp.w |->
        LET d0 == np_gradient_axis0(z, inp.h, inp.w, i, j)
            d1 == np_gradient_axis1(z, inp.h, inp.w, i, j)
            den2 == d0 * d0 + d1 * d1 + 4
            dot_image == 2 * inp.light[3] - d1 * inp.light[1] - d0 * inp.light[2]
            dot_mask == 2 * inp.light[3] - d0 * inp.light[1] - d1 * inp.light[2]
            num == IF dot_image > 0 THEN dot_image ELSE 0
        IN  [floor |-> num = 0,
             mask_floor |-> dot_mask <= 0,
             used |-> dot_mask > 0,
             residual_zero |-> ResidualIsZero(inp.image[i][j], num, den2)]]]

\* smoothness_gradient = lambda_reg * laplace(laplacian_Z, mode='constant')
CoreRegularization(inp, z) ==
    LET lap == laplace_constant(z, inp.h, inp.w)
        bilap == laplace_constant(lap, inp.h, inp.w)
    IN  [i \in 1..inp.h |-> [j \in 1..inp.w |->
            inp.regularization_lambda * bilap[i][j]]]

InitSolve ==
    /\ PipelineIdle
    /\ FieldIdle
    /\ CoreIdle
    /\ RunsIdle
    /\ AuthIdle
    /\ LifeIdle
    /\ FilesIdle
    /\ solveInput \in SolveInputs
    /\ loopState = [pc |-> IF solveInput.solver = "loop" THEN "called" ELSE "idle"]
    /\ coreState = [pc |-> IF solveInput.solver = "core" THEN "called" ELSE "idle"]

\* optimize_surface_sfs from its entry to the loop: surface, history,
\* prev_momentum = np.zeros_like(surface)
LoopSeed ==
    /\ loopState.pc = "called"
    /\ \E z \in LoopSeeds(solveInput) :
          loopState' = [pc |-> "iterating", surface |-> z,
                        prev_momentum |-> ZeroMatrix(solveInput.h, solveInput.w),
                        history |-> EmptyHistory]
    /\ UNCHANGED <<outsideSolve, solveInput, coreState>>

\* a pass of the loop from compute_gradients to the assembled grad_objective
LoopGradient ==
    /\ loopState.pc = "iterating"
    /\ LET g == [finite |-> TRUE, h |-> solveInput.h, w |-> solveInput.w,
                 z |-> loopState.surface]
           gr == compute_gradients(g)
       IN  IF gr.error # "none"
           THEN loopState' = [loopState EXCEPT !.pc = "raised"]
           ELSE loopState' =
                    [pc |-> "evaluated", surface |-> loopState.surface,
                     prev_momentum |-> loopState.prev_momentum,
                     history |-> loopState.history,
                     photometric |->
                         LoopPhotometric(solveInput,
                             compute_reflectance_map(gr, solveInput.light).R),
                     regularization |->
                         LoopRegularization(solveInput, loopState.surface)]
    /\ UNCHANGED <<outsideSolve, solveInput, coreState>>

\* run_sfs_optimization up to the minimize call: Z_initial for "flat",
\* NotImplementedError for every other mode
CoreSeed ==
    /\ coreState.pc = "called"
    /\ coreState' = IF solveInput.initial_surface = "flat"
                    THEN [pc |-> "minimize", Z_initial |-> Z_initial(solveInput)]
                    ELSE [pc |-> "raised"]
    /\ UNCHANGED <<outsideSolve, solveInput, loopState>>

\* one call of sfs_cost_and_gradient by the optimizer, at a surface Z of its
\* choice; np.gradient raises ValueError for an axis shorter than 2
CoreGradient ==
    /\ coreState.pc = "minimize"
    /\ \E z \in SolveSurfaces(solveInput.h, solveInput.w) :
          coreState' =
              IF solveInput.h < 2 \/ solveInput.w < 2
              THEN [pc |-> "except", Z_initial |-> coreState.Z_initial]
              ELSE [pc |-> "evaluated", Z_initial |-> coreState.Z_initial,
                    Z |-> z,
                    photometric |-> CorePhotometric(solveInput, z),
                    regularization |-> CoreRegularization(solveInput, z)]
    /\ UNCHANGED <<outsideSolve, solveInput, loopState>>

NextSolve == LoopSeed \/ LoopGradient \/ CoreSeed \/ CoreGradient

SpecSolve == InitSolve /\ [][NextSolve]_vars

-----------------------------------------------------------------------------
(* One upload and its job, statement by statement: the request thread of   *)
(* upload_and_process, the pool thread in LunaProcessor._process_image,    *)
(* and the request threads of cancel_job, get_job_status and               *)
(* get_results_summary, which run concurrently with the worker.  Every     *)
(* attribute write of the job object is a step of its own.  The            *)
(* processing steps between two progress reports are one step that returns *)
(* or raises.                                                              *)

\* the progress values _process_image reports before each processing step
Milestones == <<10, 20, 30, 50, 60, 70, 80, 90, 95>>

\* user_id of an upload: None without a token
Uploaders == Users \cup {"none"}

\* ProcessingResult.create_result: a new record with status 'queued'
NewRecord(user_id) == [job |-> "job", user_id |-> user_id, status |-> "queued"]

InitLife ==
    /\ PipelineIdle
    /\ FieldIdle
    /\ CoreIdle
    /\ RunsIdle
    /\ AuthIdle
    /\ SolveIdle
    /\ LifeIdle
    /\ FilesIdle

\* upload_and_process: the job is stored, a record is created for an
\* authenticated user, submit_processing_job hands the job to the pool
\* (the job has no 'future' attribute, so the Future is not kept)
Upload ==
    /\ worker.pc = "none"
    /\ \E user_id \in Uploaders :
          /\ jobObj' = NewJob
          /\ store' = IF user_id # "none" THEN <<NewRecord(user_id)>> ELSE <<>>
          /\ worker' = [pc |-> "queued", user_id |-> user_id,
                        processing_result_id |-> 0, k |-> 1,
                        failed_step |-> 0, exception |-> "none"]
    /\ UNCHANGED <<outsideLife, cancelReq, lastResponse>>

\* _process_image entry: if user_id: processing_result_id = create_result(...)
WorkerStart ==
    /\ worker.pc = "queued"
    /\ IF worker.user_id # "none"
       THEN /\ store' = Append(store, NewRecord(worker.user_id))
            /\ worker' = [worker EXCEPT !.pc = "status",
                                        !.processing_result_id = Len(store) + 1]
       ELSE /\ store' = store
            /\ worker' = [worker EXCEPT !.pc = "status"]
    /\ UNCHANGED <<outsideLife, jobObj, cancelReq, lastResponse>>

\* job.update_status(PROCESSING, p): self.status = status
WriteStatus ==
    /\ worker.pc = "status"
    /\ jobObj' = [jobObj EXCEPT !.status = "processing"]
    /\ worker' = [worker EXCEPT !.pc = "progress"]
    /\ UNCHANGED <<outsideLife, store, cancelReq, lastResponse>>

\* job.update_status(PROCESSING, p): self.progress = progress
WriteProgress ==
    /\ worker.pc = "progress"
    /\ jobObj' = [jobObj EXCEPT !.progress = Milestones[worker.k]]
    /\ worker' = [worker EXCEPT !.pc = "step"]
    /\ UNCHANGED <<outsideLife, store, cancelReq, lastResponse>>

\* the processing step that follows the report: it returns or raises
RunStep ==
    /\ worker.pc = "step"
    /\ \E ok \in BOOLEAN :
          worker' = IF ~ok
                    THEN [worker EXCEPT !.pc = "except",
                                        !.failed_step = worker.k,
                                        !.exception = "StepError"]
                    ELSE IF worker.k < Len(Milestones)
                    THEN [worker EXCEPT !.pc = "status", !.k = worker.k + 1]
                    ELSE [worker EXCEPT !.pc = "update_record"]
    /\ UNCHANGED <<outsideLife, jobObj, store, cancelReq, lastResponse>>

\* if processing_result_id: ProcessingResult.update_status(
\*     processing_result_id, status="completed", ..., cloudinary_urls=...):
\* update_status(self, status, processing_info, analysis_results) takes no
\* cloudinary_urls, the call raises TypeError before its body runs
UpdateRecord ==
    /\ worker.pc = "update_record"
    /\ worker' = IF worker.processing_result_id # 0
                 THEN [worker EXCEPT !.pc = "except", !.exception = "TypeError"]
                 ELSE [worker EXCEPT !.pc = "results"]
    /\ UNCHANGED <<outsideLife, jobObj, store, cancelReq, lastResponse>>

\* job.results = results
StoreResults ==
    /\ worker.pc = "results"
    /\ jobObj' = [jobObj EXCEPT !.results = TRUE]
    /\ worker' = [worker EXCEPT !.pc = "completed"]
    /\ UNCHANGED <<outsideLife, store, cancelReq, lastResponse>>

\* job.update_status(COMPLETED, 100): self.status = status
WriteCompleted ==
    /\ worker.pc = "completed"
    /\ jobObj' = [jobObj EXCEPT !.status = "completed"]
    /\ worker' = [worker EXCEPT !.pc = "progress_100"]
    /\ UNCHANGED <<outsideLife, store, cancelReq, lastResponse>>

\* job.update_status(COMPLETED, 100): self.progress = progress; return results
WriteProgress100 ==
    /\ worker.pc = "progress_100"
    /\ jobObj' = [jobObj EXCEPT !.progress = 100]
    /\ worker' = [worker EXCEPT !.pc = "returned"]
    /\ UNCHANGED <<outsideLife, store, cancelReq, lastResponse>>

\* except Exception: job.set_error(error_msg): self.status = JobStatus.FAILED
SetErrorStatus ==
    /\ worker.pc = "except"
    /\ jobObj' = [jobObj EXCEPT !.status = "failed"]
    /\ worker' = [worker EXCEPT !.pc = "error_message"]
    /\ UNCHANGED <<outsideLife, store, cancelReq, lastResponse>>

\* job.set_error(error_msg): self.error_message = error_message
SetErrorMessage ==
    /\ worker.pc = "error_message"
    /\ jobObj' = [jobObj EXCEPT !.error_message = "Processing failed"]
    /\ worker' = [worker EXCEPT !.pc = "except_record"]
    /\ UNCHANGED <<outsideLife, store, cancelReq, lastResponse>>

\* if processing_result: processing_result.update_status("failed"); raise e
\* -- the name processing_result is bound nowhere: the test raises NameError
\* and the record is not written
ExceptRecord ==
    /\ worker.pc = "except_record"
    /\ worker' = [worker EXCEPT !.pc = "raised", !.exception = "NameError"]
    /\ UNCHANGED <<outsideLife, jobObj, store, cancelReq, lastResponse>>

\* cancel_job up to its test of job.status
CancelCheck ==
    /\ cancelReq.pc = "idle"
    /\ IF jobObj = NoJob
       THEN /\ lastResponse' = [endpoint |-> "cancel", code |-> 404]
            /\ cancelReq' = cancelReq
       ELSE IF jobObj.status \in TerminalStatuses
       THEN /\ lastResponse' = [endpoint |-> "cancel", code |-> 400]
            /\ cancelReq' = cancelReq
       ELSE /\ lastResponse' = lastResponse
            /\ cancelReq' = [cancelReq EXCEPT !.pc = "checked"]
    /\ UNCHANGED <<outsideLife, jobObj, worker, store>>

\* cancel_job after the test: job.status = JobStatus.CANCELLED
CancelWrite ==
    /\ cancelReq.pc = "checked"
    /\ jobObj' = [jobObj EXCEPT !.status = "cancelled"]
    /\ cancelReq' = [pc |-> "idle", accepted |-> TRUE]
    /\ lastResponse' = [endpoint |-> "cancel", code |-> 200]
    /\ UNCHANGED <<outsideLife, worker, store>>

\* get_job_status: the job has no 'future' attribute, the handler only reads
GetJobStatus ==
    /\ lastResponse' =
           IF jobObj = NoJob THEN [endpoint |-> "status", code |-> 404]
           ELSE [endpoint |-> "status", code |-> 200,
                 status |-> jobObj.status, progress |-> jobObj.progress]
    /\ UNCHANGED <<outsideLife, jobObj, worker, store, cancelReq>>

\* get_results_summary; the response is kept with the status it read
GetResultsSummary ==
    /\ lastResponse' =
           IF jobObj = NoJob THEN [endpoint |-> "summary", code |-> 404]
           ELSE IF jobObj.status # "completed"
           THEN [endpoint |-> "summary", code |-> 400, status |-> jobObj.status]
           ELSE IF ~jobObj.results
           THEN [endpoint |-> "summary", code |-> 404, status |-> jobObj.status]
           ELSE [endpoint |-> "summary", code |-> 200, status |-> jobObj.status]
    /\ UNCHANGED <<outsideLife, jobObj, worker, store, cancelReq>>

WorkerStep ==
    \/ WorkerStart
    \/ WriteStatus
    \/ WriteProgress
    \/ RunStep
    \/ UpdateRecord
    \/ StoreResults
    \/ WriteCompleted
    \/ WriteProgress100
    \/ SetErrorStatus
    \/ SetErrorMessage
    \/ ExceptRecord

NextLife ==
    \/ Upload
    \/ WorkerStep
    \/ CancelCheck
    \/ CancelWrite
    \/ GetJobStatus
    \/ GetResultsSummary

SpecLife == InitLife /\ [][NextLife]_vars

\* the pool runs a submitted job, and a request that has begun is served
SpecLifeFair ==
    /\ SpecLife
    /\ WF_vars(WorkerStep)
    /\ WF_vars(CancelWrite)

-----------------------------------------------------------------------------
(* Several uploads: upload_and_process, the two folders every upload      *)
(* cleans, the pool threads that read and write them, download_results    *)

\* helpers.cleanup_directory: shutil.rmtree(directory), then an empty one
cleanup_directory(directory) == {}

\* helpers.cleanup_user_files: the job directories of the user's records
cleanup_user_files(user_id) ==
    {path \in server_results : job_storage[path[1]].user_id # user_id}

\* the archive create_results_zip writes into the job directory
ZipOf(j) == <<j, "luna_results.zip">>

\* the output and analysis directories of a job, with the files in them
DirOf(j) == <<j, "output">>

InitFiles ==
    /\ PipelineIdle
    /\ OthersIdle

\* POST /upload: both folders are emptied, the file is saved as
\* <job_id>_<filename>, the job is stored and submitted to the pool
upload_and_process ==
    \E j \in UploadIds, user_id \in Uploaders :
        /\ job_storage[j].status = "absent"
        /\ \A i \in UploadIds : i < j => job_storage[i].status # "absent"
        /\ uploads' = cleanup_directory(uploads) \cup {j}
        /\ server_results' =
               IF user_id # "none"
               THEN cleanup_directory(cleanup_user_files(user_id))
               ELSE cleanup_directory(server_results)
        /\ job_storage' = [job_storage EXCEPT
                              ![j] = [status |-> "queued", user_id |-> user_id]]
        /\ threads' = [threads EXCEPT ![j] = "start"]
        /\ UNCHANGED <<downloaded, outsideFiles>>

\* the except branch of _process_image: job.set_error
ThreadRaise(j) ==
    /\ job_storage' = [job_storage EXCEPT ![j].status = "failed"]
    /\ threads' = [threads EXCEPT ![j] = "raised"]

ThreadGoes(j, next) ==
    /\ threads' = [threads EXCEPT ![j] = next]
    /\ UNCHANGED job_storage

\* job.update_status(PROCESSING, 10)
ThreadStart(j) ==
    /\ threads[j] = "start"
    /\ job_storage' = [job_storage EXCEPT ![j].status = "processing"]
    /\ threads' = [threads EXCEPT ![j] = "load"]
    /\ UNCHANGED <<uploads, server_results, downloaded, outsideFiles>>

\* load_and_validate_image(job.image_path): imageio.imread raises when the
\* file is gone
ThreadLoad(j) ==
    /\ threads[j] = "load"
    /\ IF j \in uploads THEN ThreadGoes(j, "outputs") ELSE ThreadRaise(j)
    /\ UNCHANGED <<uploads, server_results, downloaded, outsideFiles>>

\* ensure_directory(output_dir), ensure_directory(analysis_dir), and the
\* output files written next
ThreadOutputs(j) ==
    /\ threads[j] = "outputs"
    /\ server_results' = server_results \cup {DirOf(j)}
    /\ ThreadGoes(j, "zip")
    /\ UNCHANGED <<uploads, downloaded, outsideFiles>>

\* create_results_zip: zipfile.ZipFile(zip_path, 'w') raises when the job
\* directory is gone
ThreadZip(j) ==
    /\ threads[j] = "zip"
    /\ IF DirOf(j) \in server_results
       THEN /\ server_results' = server_results \cup {ZipOf(j)}
            /\ ThreadGoes(j, "complete")
       ELSE /\ ThreadRaise(j)
            /\ UNCHANGED server_results
    /\ UNCHANGED <<uploads, downloaded, outsideFiles>>

\* job.results = ..., job.update_status(COMPLETED, 100); with a user id the
\* call of ProcessingResult.update_status before them raises TypeError
ThreadComplete(j) ==
    /\ threads[j] = "complete"
    /\ IF job_storage[j].user_id = "none"
       THEN /\ job_storage' = [job_storage EXCEPT ![j].status = "completed"]
            /\ threads' = [threads EXCEPT ![j] = "returned"]
       ELSE ThreadRaise(j)
    /\ UNCHANGED <<uploads, server_results, downloaded, outsideFiles>>

\* GET /download/<job_id>
download_results(j) ==
    /\ downloaded' =
           [job |-> j, status |-> job_storage[j].status,
            code |-> IF job_storage[j].status = "absent" THEN 404
                     ELSE IF job_storage[j].status # "completed" THEN 400
                     ELSE IF ZipOf(j) \notin server_results THEN 404
                     ELSE 200]
    /\ UNCHANGED <<job_storage, uploads, server_results, threads, outsideFiles>>

NextFiles ==
    \/ upload_and_process
    \/ \E j \in UploadIds : ThreadStart(j)
    \/ \E j \in UploadIds : ThreadLoad(j)
    \/ \E j \in UploadIds : ThreadOutputs(j)
    \/ \E j \in UploadIds : ThreadZip(j)
    \/ \E j \in UploadIds : ThreadComplete(j)
    \/ \E j \in UploadIds : download_results(j)

SpecFiles == InitFiles /\ [][NextFiles]_vars

-----------------------------------------------------------------------------
(* Properties *)

\* a recorded mean height change lies below the configured threshold
BelowThreshold(c) == c.finite /\ c.sum < config.convergence_threshold * NCells

ThresholdMetAt(i) == BelowThreshold(history.convergence[i])

NoPassMetThreshold == \A i \in DOMAIN history.convergence : ~ThresholdMetAt(i)

SolverReturned ==
    pc \in {"scale", "outputs", "visualize", "analyze", "save", "publish", "done"}

\* C1: a run with max_iterations = N in which no pass meets the convergence
\* threshold executes exactly N passes (never more while looping), returns
\* with N records in each trace sequence and is reported converged = false.
C1_BudgetExhaustion ==
    /\ (pc = "iterating" /\ NoPassMetThreshold) =>
           Len(history.convergence) < config.max_iterations
    /\ (SolverReturned /\ NoPassMetThreshold) =>
           /\ iteration + 1 = config.max_iterations
           /\ history.iterations = config.max_iterations
           /\ Len(history.residuals) = config.max_iterations
           /\ Len(history.gradients) = config.max_iterations
           /\ Len(history.convergence) = config.max_iterations
           /\ processing_info.set =>
                  /\ processing_info.iterations = config.max_iterations
                  /\ ~processing_info.converged

C1_Witness ==
    /\ pc = "done"
    /\ config.max_iterations = MaxIter
    /\ NoPassMetThreshold
    /\ Len(history.convergence) = MaxIter
    /\ ~processing_info.converged

\* C2: the loop is left at the first pass whose mean height change is below
\* the threshold: such a pass is always the last record of the trace and the
\* solver is no longer iterating; and the loop is left before the budget is
\* used up only by such a pass.
C2_StopsAtFirstConvergedPass ==
    /\ \A i \in DOMAIN history.convergence :
           ThresholdMetAt(i) => (i = Len(history.convergence) /\ pc # "iterating")
    /\ (pc = "sfs_final" /\ Len(history.convergence) < config.max_iterations) =>
           ThresholdMetAt(Len(history.convergence))

C2_Witness ==
    /\ pc = "scale"
    /\ Len(history.convergence) = 2
    /\ config.max_iterations = 3
    /\ ~ThresholdMetAt(1)
    /\ ThresholdMetAt(2)
    /\ history.iterations = 2

\* C3: the reported flag is converged = false exactly when no executed pass
\* met the threshold; a run in which some pass (the last one included) met it
\* is reported converged = true.
C3_ConvergedFlagIffThresholdMet ==
    processing_info.set =>
        (processing_info.converged <=> ~NoPassMetThreshold)

\* C4: once the job is cancelled while the solver is iterating, no further
\* pass is executed: the trace and the pass counter stay as they are.
C4_CancelStopsIterating ==
    [][(pc = "iterating" /\ job.status = "cancelled") =>
           (iteration' = iteration /\ history' = history)]_vars

\* C5: when the cost or the gradient of a pass is non-finite the run is in
\* Failed with an error raised; it neither keeps iterating nor returns.
C5_NonFiniteFails ==
    (\E i \in DOMAIN history.residuals :
         history.residuals[i] = "nonfinite" \/ history.gradients[i] = "nonfinite")
        => (pc = "failed" /\ raised # "none")

\* C6: for an empty image or one with a non-finite pixel the pipeline raises
\* the loader's ValueError and fails the job; no solver pass is executed, the
\* trace stays empty and neither a height field nor a DEM is produced.
C6_InvalidImageRejected ==
    image.content \in {"empty", "nonfinite"} =>
        /\ pc \in {"queued", "load", "failed"}
        /\ iteration = -1
        /\ history = EmptyHistory
        /\ surface = NoField
        /\ dem = NoField
        /\ ~processing_info.set
        /\ pc = "failed" =>
               (raised = "ValueError" /\ job.status = "failed"
                    /\ job.error_message # "none")

C6_Witness ==
    /\ image.content = "nonfinite"
    /\ pc = "failed"
    /\ raised = "ValueError"
    /\ history.convergence = <<>>

\* C7: a configuration with dem_min_height >= dem_max_height is rejected
\* before optimization: no solver pass is executed and no DEM is produced.
C7_InvalidBoundsRejected ==
    config.dem_min_height >= config.dem_max_height =>
        /\ iteration = -1
        /\ history.convergence = <<>>
        /\ dem = NoField

ValidBounds(cfg) == cfg.dem_min_height < cfg.dem_max_height

\* C8: for every relative field and every configuration with
\* dem_min_height < dem_max_height, in robust and standard normalisation and
\* with feature enhancement on or off, every cell of the returned DEM lies in
\* [dem_min_height, dem_max_height].
C8_DemWithinBounds ==
    \A c \in DOMAIN scaleCalls :
        ValidBounds(scaleCalls[c].cfg) =>
            /\ scaleCalls[c].ret.finite
            /\ DOMAIN scaleCalls[c].ret.z = DOMAIN scaleCalls[c].arg.z
            /\ \A i \in DOMAIN scaleCalls[c].ret.z :
                   /\ scaleCalls[c].ret.z[i] >= scaleCalls[c].cfg.dem_min_height
                   /\ scaleCalls[c].ret.z[i] <= scaleCalls[c].cfg.dem_max_height

\* C9: the scaler preserves order: for every field and every configuration it
\* is called with, two cells a, b of the relative field with
\* field[a] > field[b] have dem[a] >= dem[b], in either normalisation mode and
\* for each gamma chosen.
C9_OrderPreserved ==
    \A c \in DOMAIN scaleCalls :
        \A a, b \in DOMAIN scaleCalls[c].arg.z :
            scaleCalls[c].arg.z[a] > scaleCalls[c].arg.z[b] =>
                scaleCalls[c].ret.z[a] >= scaleCalls[c].ret.z[b]

IsPrefix(s, t) == Len(s) <= Len(t) /\ \A i \in DOMAIN s : s[i] = t[i]

SolverAt == {"iterating", "sfs_final"}

\* C12: the trace is append-only with one record per pass: at every pass
\* boundary each of the three sequences has as many records as passes were
\* completed, a step never changes or removes a record already appended, and
\* the returned iteration count is the length of the trace.
C12_TraceAppendOnly ==
    /\ []((pc \in SolverAt \/ SolverReturned) =>
              /\ Len(history.residuals) = iteration + 1
              /\ Len(history.gradients) = iteration + 1
              /\ Len(history.convergence) = iteration + 1)
    /\ [](SolverReturned => history.iterations = Len(history.convergence))
    /\ [][/\ IsPrefix(history.residuals, history'.residuals)
           /\ IsPrefix(history.gradients, history'.gradients)
           /\ IsPrefix(history.convergence, history'.convergence)]_vars

C12_Witness ==
    /\ pc = "outputs"
    /\ Len(history.residuals) = MaxIter
    /\ history.iterations = MaxIter
    /\ history.residuals[MaxIter] = "nonfinite"
    /\ history.residuals[1] = "finite"

\* C14: a run never starts over: the pass index goes up by one at a time from
\* the first pass, at most max_iterations passes are executed, and once the
\* solver has left its loop or the job has failed, optimization is not
\* entered again.
C14_NoRestart ==
    /\ [](/\ iteration + 1 <= config.max_iterations
          /\ Len(history.convergence) <= config.max_iterations)
    /\ [][\/ iteration' = iteration
           \/ (pc = "iterating" /\ iteration' = iteration + 1)]_vars
    /\ [][(pc = "sfs_final" \/ SolverReturned \/ pc = "failed") =>
              pc' \notin {"sfs_init", "iterating"}]_vars

C14_Witness ==
    /\ pc = "done"
    /\ job.status = "completed"
    /\ iteration + 1 = config.max_iterations
    /\ config.max_iterations > 1
    /\ ~processing_info.converged

\* the light-normal dot product of a cell, times the positive norm factor
DotProduct(i, j) ==
    2 * light[3] - gradients.grad_x[i][j] * light[1]
                 - gradients.grad_y[i][j] * light[2]

\* C15: every cell of the reflectance map is >= 0, whatever the gradient
\* field and the light direction, and a cell whose normal-light dot product
\* is negative holds exactly 0.
C15_ReflectanceNonNegative ==
    reflectance.called =>
        /\ reflectance.finite
        /\ \A i \in 1..reflectance.h, j \in 1..reflectance.w :
               /\ reflectance.R[i][j].num >= 0
               /\ DotProduct(i, j) < 0 => reflectance.R[i][j].num = 0

\* C16: for every surface of H >= 1 rows and W >= 1 columns the operators
\* succeed and both gradient components and the reflectance map have H rows
\* of W cells.
C16_ShapePreserved ==
    /\ gradients.called =>
           /\ gradients.error = "none"
           /\ Len(gradients.grad_x) = grid.h
           /\ Len(gradients.grad_y) = grid.h
           /\ \A i \in 1..grid.h :
                  /\ Len(gradients.grad_x[i]) = grid.w
                  /\ Len(gradients.grad_y[i]) = grid.w
    /\ reflectance.called =>
           /\ Len(reflectance.R) = grid.h
           /\ \A i \in 1..grid.h : Len(reflectance.R[i]) = grid.w

\* twice the derivative along the row of cell (i, j): central between its two
\* row neighbours, one-sided at the left and the right edge
RowDerivative(g, i, j) ==
    IF j = 1 THEN 2 * (g.z[i][2] - g.z[i][1])
    ELSE IF j = g.w THEN 2 * (g.z[i][g.w] - g.z[i][g.w - 1])
    ELSE g.z[i][j + 1] - g.z[i][j - 1]

\* twice the derivative along the column of cell (i, j)
ColumnDerivative(g, i, j) ==
    IF i = 1 THEN 2 * (g.z[2][j] - g.z[1][j])
    ELSE IF i = g.h THEN 2 * (g.z[g.h][j] - g.z[g.h - 1][j])
    ELSE g.z[i + 1][j] - g.z[i - 1][j]

\* C20: on a grid of at least 2 x 2 the x-derivative of every cell is the
\* difference along its row (central where the cell has both row neighbours,
\* one-sided on the left and right edge) and the y-derivative the difference
\* along its column.
C20_GradientStencil ==
    (gradients.called /\ grid.finite /\ grid.h >= 2 /\ grid.w >= 2) =>
        \A i \in 1..grid.h, j \in 1..grid.w :
            /\ gradients.grad_x[i][j] = RowDerivative(grid, i, j)
            /\ gradients.grad_y[i][j] = ColumnDerivative(grid, i, j)

\* the passes among a, a + 1, ..., a + SmoothingPeriod - 1 that ran the filter
SmoothedWithin(a) ==
    {k \in DOMAIN smoothedAt :
        a <= smoothedAt[k] /\ smoothedAt[k] < a + SmoothingPeriod}

\* C18: the bilateral filter runs in a pass only when it is enabled and the
\* pass index is a multiple of the smoothing period K; with the filter
\* enabled every K consecutive passes hold exactly one application, and it
\* does not run in every pass.
C18_SmoothingEveryKthPass ==
    /\ \A k \in DOMAIN smoothedAt :
           /\ config.use_bilateral_filter
           /\ smoothedAt[k] % SmoothingPeriod = 0
           /\ smoothedAt[k] <= iteration
    /\ config.use_bilateral_filter =>
           \A a \in 0..(iteration + 1 - SmoothingPeriod) :
               Cardinality(SmoothedWithin(a)) = 1
    /\ iteration >= 1 => Len(smoothedAt) < iteration + 1

C18_Witness ==
    /\ pc = "done"
    /\ config.use_bilateral_filter
    /\ smoothedAt = <<0, SmoothingPeriod, 2 * SmoothingPeriod>>
    /\ iteration = 2 * SmoothingPeriod

\* C19: started from the zero field on the flat image, every pass leaves the
\* height field with all cells equal, and for every max_iterations >= 1 and
\* every positive threshold the run ends converged within the first passes.
C19_FlatFieldConverges ==
    (image.content = "flat" /\ config.convergence_threshold > 0) =>
        /\ \A i, j \in DOMAIN surface.z : surface.z[i] = surface.z[j]
        /\ (pc = "sfs_final" \/ SolverReturned) => iteration + 1 <= 2
        /\ processing_info.set => processing_info.converged

\* C13: every run that returns a height field has applied exactly one final
\* smoothing pass to it, in optimize_surface_sfs and in run_sfs_optimization
\* alike; no path returns a field that skipped the pass.
C13_FinalSmoothingOnce ==
    /\ SolverReturned => finalSmoothings = 1
    /\ corePc = "returned" => coreField.final_smoothings = 1

\* C11: concurrent runs share no mutable state: two runs in progress never
\* hold the same configuration object, and the configuration a run in
\* progress reads is the one it was given when it started, whatever is
\* written meanwhile.
C11_RunsShareNoState ==
    /\ \A j1, j2 \in Jobs :
          (j1 # j2 /\ runs[j1].state = "running" /\ runs[j2].state = "running")
              => runs[j1].config # runs[j2].config
    /\ \A j \in Jobs :
          runs[j].state = "running" => Deref(runs[j].config) = runs[j].entered

DeleteEndpoints == {"delete_user_result", "delete_result"}

\* the record a delete response is about is stored under another user_id
RefusedDelete ==
    /\ response.endpoint \in DeleteEndpoints
    /\ response.credential \in Users
    /\ processing_results[response.result_id] \in Users \ {response.credential}

C23_GammaOnlyWhenSkewed ==
    \A c \in DOMAIN scaleCalls :
        LET cfg == scaleCalls[c].cfg
            norm == Normalize(scaleCalls[c].arg.z, cfg)
            shaped == Enhance(norm, cfg)
            skew == SkewClass(norm)
        IN  cfg.feature_enhancement =>
                /\ skew = "positive" => \A i \in DOMAIN norm : shaped[i] >= norm[i]
                /\ skew = "negative" => \A i \in DOMAIN norm : shaped[i] <= norm[i]
                /\ skew = "balanced" =>
                       scaleCalls[c].ret = FiniteField(LinearMap(norm, cfg))

LoopEvaluated == loopState.pc = "evaluated"

CoreEvaluated == coreState.pc = "evaluated"

\* C21: for every regularization weight lambda <= 0 and every height field
\* the regularization part of the gradient is the zero field, in the loop of
\* optimize_surface_sfs and in sfs_cost_and_gradient.
C21_NoRegularizationBelowZero ==
    solveInput.solver # "none" /\ solveInput.regularization_lambda <= 0 =>
        /\ LoopEvaluated =>
               loopState.regularization = ZeroMatrix(solveInput.h, solveInput.w)
        /\ CoreEvaluated =>
               coreState.regularization = ZeroMatrix(solveInput.h, solveInput.w)

\* C22: a cell whose predicted reflectance is at the clamp floor contributes
\* nothing to the photometric gradient: its residual is masked out, or is
\* exactly zero, in the loop of optimize_surface_sfs and in
\* sfs_cost_and_gradient.
C22_FloorCellsContributeNothing ==
    /\ LoopEvaluated =>
           \A i \in 1..solveInput.h, j \in 1..solveInput.w :
               LET c == loopState.photometric[i][j]
               IN  c.floor => (~c.used \/ c.residual_zero)
    /\ CoreEvaluated =>
           \A i \in 1..solveInput.h, j \in 1..solveInput.w :
               LET c == coreState.photometric[i][j]
               IN  (c.floor \/ c.mask_floor) => (~c.used \/ c.residual_zero)

IsScaledImage(z) == solveInput.solver # "none" /\ z = Z_initial(solveInput)

\* the seed a solver starts from agrees with the configured mode
SeedFollowsMode(seed) ==
    /\ solveInput.initial_surface \in {"flat", "random", "image"}
    /\ solveInput.initial_surface = "flat" =>
           seed = ZeroMatrix(solveInput.h, solveInput.w)
    /\ solveInput.initial_surface = "image" <=> IsScaledImage(seed)

\* C24: when a solver enters its iteration the momentum buffer is all zeros,
\* the trace is empty and the height field is the seed of the configured
\* mode: all zeros for "flat", the scaled image intensity for the
\* image-seeded mode and for no other; a mode the solver does not know (here
\* "dem") is not replaced by another seed.
C24_SeedFollowsMode ==
    /\ loopState.pc = "iterating" =>
           /\ loopState.prev_momentum = ZeroMatrix(solveInput.h, solveInput.w)
           /\ loopState.history = EmptyHistory
           /\ SeedFollowsMode(loopState.surface)
    /\ coreState.pc = "minimize" => SeedFollowsMode(coreState.Z_initial)

\* C25: a terminal job status is absorbing: once the job is COMPLETED, FAILED
\* or CANCELLED no step of the worker, of a cancel request or of a status
\* poll changes its status.
C25_TerminalAbsorbing ==
    [][jobObj.status \in TerminalStatuses => jobObj'.status = jobObj.status]_vars

\* C27: a job whose status is COMPLETED has progress 100 and its results
\* stored, and a results request answered while the job is COMPLETED finds
\* the results.
C27_CompletedHasResults ==
    /\ jobObj.status = "completed" => (jobObj.progress = 100 /\ jobObj.results)
    /\ (lastResponse.endpoint = "summary" /\ lastResponse.code # 200)
           => ("status" \notin DOMAIN lastResponse
                  \/ lastResponse.status # "completed")

\* the worker left _process_image through its except branch
WorkerRaised == worker.pc = "raised"

RecordsOfJob == {i \in DOMAIN store : store[i].job = "job"}

\* C28: when a processing step raises, the job ends FAILED with its
\* error_message set and its progress at the value reported before that
\* step, and the record of an authenticated user's job has status 'failed'.
C28_FailureRecorded ==
    (WorkerRaised /\ worker.failed_step # 0 /\ ~cancelReq.accepted
                  /\ cancelReq.pc = "idle") =>
        /\ jobObj.status = "failed"
        /\ jobObj.error_message # "none"
        /\ jobObj.progress = Milestones[worker.failed_step]
        /\ worker.user_id # "none" =>
               \A i \in RecordsOfJob : store[i].status = "failed"

\* the stored status that goes with a job status
RecordStatusFor(status) ==
    IF status \in {"completed", "failed"} THEN {status} ELSE {"queued"}

\* C29: the store holds at most one record per job id, and once the worker
\* has finished that record's status is the job's (completed or failed).
C29_OneRecordPerJob ==
    /\ Cardinality(RecordsOfJob) <= 1
    /\ (worker.pc \in {"returned", "raised"} /\ ~cancelReq.accepted
            /\ cancelReq.pc = "idle") =>
           \A i \in RecordsOfJob : store[i].status \in RecordStatusFor(jobObj.status)

\* C30: under a fair pool every submitted job reaches a terminal status and
\* stays there, and a job whose processing steps all return and that no
\* cancel request touched ends COMPLETED, with or without a user id.
C30_EveryJobTerminates ==
    /\ [](worker.pc # "none" => <>[](jobObj.status \in TerminalStatuses))
    /\ []((worker.pc \in {"returned", "raised"} /\ worker.failed_step = 0
              /\ ~cancelReq.accepted /\ cancelReq.pc = "idle")
          => jobObj.status = "completed")

\* C26: an upload removes neither the image of another job nor its result
\* files: a job whose thread has yet to read its image finds the file in
\* the uploads folder, a COMPLETED job's archive is in the results folder,
\* and a download that found the job COMPLETED is served the archive.
C26_UploadsKeepOtherFiles ==
    /\ \A j \in UploadIds : threads[j] \in {"start", "load"} => j \in uploads
    /\ \A j \in UploadIds :
           job_storage[j].status = "completed" => ZipOf(j) \in server_results
    /\ downloaded.status = "completed" => downloaded.code = 200

====
